---- MODULE Spec2Model ----
(***************************************************************************)
(* A model of noetry (src/noetry/__main__.py): one project directory, the  *)
(* files noetry reads and writes in it (.venv, requirements.txt,           *)
(* .noetry.yml, pyproject.toml), and one action per command of main().     *)
(* Every action is one whole run of the program: the dispatch in main()    *)
(* and everything the dispatched function does.                            *)
(***************************************************************************)
EXTENDS Naturals, Sequences, FiniteSets

VARIABLES
    host,             \* os.name / sys.platform of the host, and whether rm is on PATH
    venvExists,       \* os.path.exists(<project>/.venv)
    venvLayouts,      \* which of .venv/bin and .venv/Scripts exist (pip, activate inside)
    installed,        \* site-packages of .venv: package -> version or NotInstalled
    requirementsTxt,  \* <project>/requirements.txt
    noetryYml,        \* <project>/.noetry.yml
    pyproject,        \* <project>/pyproject.toml
    cmd,              \* sys.argv[1] of the last run
    arg,              \* sys.argv[2] of the last run (NoArg when missing)
    printed,          \* what the last run printed, in order
    spawned,          \* the subprocess.run calls of the last run, in order
    raised,           \* the exception that ended the last run, or NoException
    everInstalled,    \* history: the packages some run of add installed with success
    procs             \* the runs in progress, where a run is followed step by step

vars == <<host, venvExists, venvLayouts, installed, requirementsTxt, noetryYml,
          pyproject, cmd, arg, printed, spawned, raised, everInstalled, procs>>

fsVars == <<venvExists, venvLayouts, installed, requirementsTxt, noetryYml>>

----------------------------------------------------------------------------
(* Bounds of the model *)

\* how many distinct versions the package index offers of each package
NumVersions == 2

\* the largest number of entries in one group of a generated pyproject.toml
MaxDeps == 2

----------------------------------------------------------------------------
(* The values the model draws from *)

VersionStr == <<"1.0", "2.0", "3.0", "4.0">>

Versions == {VersionStr[i] : i \in 1..NumVersions}

\* pip's enumeration order (by name)
PackageOrder == <<"requests", "urllib3">>

Packages == {PackageOrder[i] : i \in 1..Len(PackageOrder)}

\* install_requires of the packages of the index
Requires == [p \in Packages |-> IF p = "requests" THEN {"urllib3"} ELSE {}]

NotInstalled == "-"

NoArg == ""

NoException == "none"

Constraints == {"^2.0", "^3.9"}

ImportNames == {"python"} \cup Packages

Layouts == {"bin", "Scripts"}

Hosts ==
    { [osName |-> "posix", sysPlatform |-> "linux", rmOnPath |-> TRUE],
      [osName |-> "nt",    sysPlatform |-> "win32", rmOnPath |-> TRUE],
      [osName |-> "nt",    sysPlatform |-> "win32", rmOnPath |-> FALSE],
      [osName |-> "java",  sysPlatform |-> "java",  rmOnPath |-> TRUE] }

NoFile == [exists |-> FALSE, text |-> <<>>]

----------------------------------------------------------------------------
(* Messages *)

MsgCreated == <<"Created virtual environment at: ", ".venv">>
MsgDeleted == <<"Deleted virtual environment at: ", ".venv">>
MsgInstalled(p) == <<"Installed package: ", p>>
MsgUninstalled(p) == <<"Uninstalled package: ", p>>
MsgNoVenv ==
    <<"Error: No virtual environment found in this project. Please use 'noetry create'.">>
MsgUnsupportedOS == <<"Error: Unsupported OS.">>
MsgYmlExists == <<".noetry.yml", " already exists.">>
MsgInitialized(v) ==
    <<"Initialized ", ".noetry.yml", " with default Python version ", v, ".">>
MsgNoPyproject == <<"Error: pyproject.toml not found in the current directory.">>
MsgConverted == <<"Converted Poetry project to Noetry.">>
MsgNeedPackageToAdd == <<"Please specify a package to add.">>
MsgNeedPackageToRemove == <<"Please specify a package to remove.">>
MsgNeedVersion == <<"Please specify a Python version.">>
MsgNeedCommand == <<"Please specify a command to run.">>
MsgHelp == <<"Noetry - A simple virtual environment and dependency manager">>
MsgUnknown(c) == <<"Unknown command: ", c>>

----------------------------------------------------------------------------
(* Paths and the filesystem *)

venv_dir == <<".venv">>

os_path_join(dir, sub, name) == dir \o <<sub, name>>

\* os.path.exists of a path under .venv, and whether exec finds the file
PathExists(path) ==
    /\ Len(path) >= 1
    /\ path[1] = ".venv"
    /\ venvExists
    /\ (Len(path) >= 2 => path[2] \in venvLayouts)

\* variant of get_pip_exe that probes the disk, as run_in_venv does for activate
get_pip_exe_probing(dir) ==
    IF PathExists(os_path_join(dir, "bin", "pip"))
    THEN os_path_join(dir, "bin", "pip")
    ELSE os_path_join(dir, "Scripts", "pip")

\* get_pip_exe: the platform decides, the filesystem is not probed
get_pip_exe(dir) ==
    IF host.sysPlatform = "win32"
    THEN os_path_join(dir, "Scripts", "pip")
    ELSE os_path_join(dir, "bin", "pip")

\* the layout venv.create builds on this host
NativeLayout == IF host.osName = "nt" THEN "Scripts" ELSE "bin"

\* variant of OpenWrite: the file opened with 'a'
OpenWriteAppend(file, text) == [exists |-> TRUE, text |-> file.text \o text]

\* open(path, 'w') then write(text): the old content is dropped
OpenWrite(file, text) == [exists |-> TRUE, text |-> text]

\* one subprocess.run call, as it is recorded in spawned
Proc(exe, args, status) == [exe |-> exe, args |-> args, status |-> status]

----------------------------------------------------------------------------
(* The installer (pip inside the environment) *)

NoPackages == [p \in Packages |-> NotInstalled]

InstalledSet(inst) == {p \in Packages : inst[p] # NotInstalled}

\* pip install p: p at version v and its missing requirements at version w;
\* an already installed package is left as it is
pip_install(inst, p, v, w) ==
    [q \in Packages |->
        IF inst[q] # NotInstalled THEN inst[q]
        ELSE IF q = p THEN v
        ELSE IF q \in Requires[p] THEN w
        ELSE NotInstalled]

\* pip uninstall -y p: p alone is removed
pip_uninstall(inst, p) ==
    [q \in Packages |-> IF q = p THEN NotInstalled ELSE inst[q]]

RECURSIVE FreezeFrom(_, _)
FreezeFrom(inst, i) ==
    IF i > Len(PackageOrder) THEN <<>>
    ELSE LET p == PackageOrder[i] IN
         (IF inst[p] # NotInstalled THEN <<p, "==", inst[p], "\n">> ELSE <<>>)
            \o FreezeFrom(inst, i + 1)

\* stdout of pip freeze: one name==version line per installed package
pip_freeze(inst) == FreezeFrom(inst, 1)

\* variant of update_requirements: the file is rewritten with what it held
update_requirements_stale(file, inst) == OpenWrite(file, file.text)

\* update_requirements: requirements.txt becomes the output of pip freeze
update_requirements(file, inst) == OpenWrite(file, pip_freeze(inst))

----------------------------------------------------------------------------
(* pyproject.toml and the conversion to requirements.txt *)

\* a TOML table / Python dict is a sequence of <<key, value>> in insertion order
DictKeys(d) == {d[i][1] : i \in DOMAIN d}

DictGet(d, k) == LET i == CHOOSE j \in DOMAIN d : d[j][1] = k IN d[i][2]

\* del d[k]
DictDel(d, k) == SelectSeq(d, LAMBDA e : e[1] # k)

\* d[k] = v: an existing key keeps its place and takes the new value
DictSet(d, k, v) ==
    IF k \in DictKeys(d)
    THEN [i \in DOMAIN d |-> IF d[i][1] = k THEN <<k, v>> ELSE d[i]]
    ELSE Append(d, <<k, v>>)

RECURSIVE DictUpdate(_, _, _)
DictUpdate(d, e, i) ==
    IF i > Len(e) THEN d ELSE DictUpdate(DictSet(d, e[i][1], e[i][2]), e, i + 1)

\* variant of DictMerge: {**b, **a}
DictMergeFirstWins(a, b) == DictUpdate(b, a, 1)

\* {**a, **b}
DictMerge(a, b) == DictUpdate(a, b, 1)

\* variant of DropPython: the entry is kept
DropPythonNever(deps) == deps

\* if "python" in dependencies: del dependencies["python"]
DropPython(deps) == IF "python" \in DictKeys(deps) THEN DictDel(deps, "python") ELSE deps

\* requirements.append(f"{name}{version}") for every item of the merged dict
RequirementEntries(merged) == [i \in DOMAIN merged |-> <<merged[i][1], merged[i][2]>>]

RECURSIVE JoinNewline(_)
\* '\n'.join(requirements)
JoinNewline(lines) ==
    IF Len(lines) = 0 THEN <<>>
    ELSE IF Len(lines) = 1 THEN lines[1]
    ELSE lines[1] \o <<"\n">> \o JoinNewline(Tail(lines))

\* the text convert_from_poetry writes to requirements.txt
ConvertedText(doc) ==
    JoinNewline(RequirementEntries(
        DictMerge(DropPython(doc.dependencies), doc.devDependencies)))

\* the lines of a text file, as a reader splits them at "\n"
RECURSIVE SplitLines(_, _)
SplitLines(text, cur) ==
    IF Len(text) = 0 THEN (IF Len(cur) = 0 THEN <<>> ELSE <<cur>>)
    ELSE IF Head(text) = "\n" THEN <<cur>> \o SplitLines(Tail(text), <<>>)
    ELSE SplitLines(Tail(text), Append(cur, Head(text)))

Lines(text) == SplitLines(text, <<>>)

\* the entries of requirements.txt that name package n
EntriesNamed(file, n) ==
    {i \in DOMAIN Lines(file.text) :
        Len(Lines(file.text)[i]) >= 1 /\ Lines(file.text)[i][1] = n}

Entries == ImportNames \X Constraints

\* the groups of a pyproject.toml: at most n entries, no key twice
Groups(n) ==
    {g \in UNION {[1..k -> Entries] : k \in 0..n} :
        \A i, j \in DOMAIN g : g[i][1] = g[j][1] => i = j}

PyprojectDoc(deps, dev) ==
    [exists |-> TRUE, dependencies |-> deps, devDependencies |-> dev]

NoPyproject == [exists |-> FALSE, dependencies |-> <<>>, devDependencies |-> <<>>]

ForeignDocs == {PyprojectDoc(d, e) : d \in Groups(MaxDeps), e \in Groups(MaxDeps)}

\* the pyproject.toml files the command sequences start from
ForeignSamples ==
    { PyprojectDoc(<<<<"python", "^3.9">>, <<"requests", "^2.0">>>>, <<>>),
      PyprojectDoc(<<<<"requests", "^2.0">>>>,
                   <<<<"requests", "^3.9">>, <<"urllib3", "^2.0">>>>) }

----------------------------------------------------------------------------
(* .noetry.yml *)

\* yaml.dump({"python_version": v})
YamlDump(v) == <<"python_version", ": ", v, "\n">>

DefaultPythonVersion == "3.9"

\* a config the user wrote by hand
HandWrittenYml == OpenWrite(NoFile, YamlDump("3.11"))

\* a requirements.txt the user wrote by hand
HandWrittenRequirements == OpenWrite(NoFile, <<"flask", "==", "1.0", "\n">>)

----------------------------------------------------------------------------
(* The functions of the program.  Each is the part of an action that one   *)
(* call of the function contributes; main() below adds cmd and arg.        *)

\* variant of create_virtualenv: requirements.txt is resynced as well
create_virtualenv_resyncing ==
    /\ venvExists' = TRUE
    /\ venvLayouts' = venvLayouts \cup {NativeLayout}
    /\ installed' = installed
    /\ requirementsTxt' = update_requirements(requirementsTxt, installed)
    /\ printed' = <<MsgCreated>>
    /\ spawned' = <<>>
    /\ raised' = NoException
    /\ UNCHANGED noetryYml

\* create_virtualenv: venv.create(venv_dir, with_pip=True)
create_virtualenv ==
    /\ venvExists' = TRUE
    /\ venvLayouts' = venvLayouts \cup {NativeLayout}
    /\ installed' = installed
    /\ printed' = <<MsgCreated>>
    /\ spawned' = <<>>
    /\ raised' = NoException
    /\ UNCHANGED <<requirementsTxt, noetryYml>>

\* variant of delete_virtualenv: requirements.txt is removed too
delete_virtualenv_clearing ==
    IF host.rmOnPath
    THEN /\ venvExists' = FALSE
         /\ venvLayouts' = {}
         /\ installed' = NoPackages
         /\ requirementsTxt' = NoFile
         /\ printed' = <<MsgDeleted>>
         /\ spawned' = <<Proc(<<"rm">>, <<"-rf", ".venv">>, "ok")>>
         /\ raised' = NoException
         /\ UNCHANGED noetryYml
    ELSE /\ printed' = <<>>
         /\ spawned' = <<Proc(<<"rm">>, <<"-rf", ".venv">>, "ENOENT")>>
         /\ raised' = "FileNotFoundError"
         /\ UNCHANGED fsVars

\* variant of delete_virtualenv: .noetry.yml is removed too
delete_virtualenv_with_config ==
    IF host.rmOnPath
    THEN /\ venvExists' = FALSE
         /\ venvLayouts' = {}
         /\ installed' = NoPackages
         /\ noetryYml' = NoFile
         /\ printed' = <<MsgDeleted>>
         /\ spawned' = <<Proc(<<"rm">>, <<"-rf", ".venv">>, "ok")>>
         /\ raised' = NoException
         /\ UNCHANGED requirementsTxt
    ELSE /\ printed' = <<>>
         /\ spawned' = <<Proc(<<"rm">>, <<"-rf", ".venv">>, "ENOENT")>>
         /\ raised' = "FileNotFoundError"
         /\ UNCHANGED fsVars

\* delete_virtualenv: subprocess.run(['rm', '-rf', venv_dir]); where rm is not
\* on PATH (a Windows host without it) subprocess.run raises
delete_virtualenv ==
    IF host.rmOnPath
    THEN /\ venvExists' = FALSE
         /\ venvLayouts' = {}
         /\ installed' = NoPackages
         /\ printed' = <<MsgDeleted>>
         /\ spawned' = <<Proc(<<"rm">>, <<"-rf", ".venv">>, "ok")>>
         /\ raised' = NoException
         /\ UNCHANGED <<requirementsTxt, noetryYml>>
    ELSE /\ printed' = <<>>
         /\ spawned' = <<Proc(<<"rm">>, <<"-rf", ".venv">>, "ENOENT")>>
         /\ raised' = "FileNotFoundError"
         /\ UNCHANGED fsVars

\* install_package(project_dir, p).  ok: pip's exit status; v, w: the versions
\* pip picks for p and for its requirements
install_package(p, ok, v, w) ==
    LET pip_exe == get_pip_exe(venv_dir) IN
    IF ~PathExists(pip_exe)
    THEN /\ printed' = <<>>
         /\ spawned' = <<Proc(pip_exe, <<"install", p>>, "ENOENT")>>
         /\ raised' = "FileNotFoundError"
         /\ UNCHANGED fsVars
    ELSE /\ installed' = IF ok THEN pip_install(installed, p, v, w) ELSE installed
         /\ requirementsTxt' = update_requirements(requirementsTxt, installed')
         /\ printed' = <<MsgInstalled(p)>>
         /\ spawned' = <<Proc(pip_exe, <<"install", p>>, IF ok THEN "ok" ELSE "fail"),
                         Proc(pip_exe, <<"freeze">>, "ok")>>
         /\ raised' = NoException
         /\ UNCHANGED <<venvExists, venvLayouts, noetryYml>>

\* variant of uninstall_package: update_requirements is not called
uninstall_package_no_resync(p, ok) ==
    LET pip_exe == get_pip_exe(venv_dir) IN
    IF ~PathExists(pip_exe)
    THEN /\ printed' = <<>>
         /\ spawned' = <<Proc(pip_exe, <<"uninstall", "-y", p>>, "ENOENT")>>
         /\ raised' = "FileNotFoundError"
         /\ UNCHANGED fsVars
    ELSE /\ installed' = IF ok THEN pip_uninstall(installed, p) ELSE installed
         /\ printed' = <<MsgUninstalled(p)>>
         /\ spawned' = <<Proc(pip_exe, <<"uninstall", "-y", p>>,
                              IF ok THEN "ok" ELSE "fail")>>
         /\ raised' = NoException
         /\ UNCHANGED <<venvExists, venvLayouts, noetryYml, requirementsTxt>>

\* uninstall_package(project_dir, p)
uninstall_package(p, ok) ==
    LET pip_exe == get_pip_exe(venv_dir) IN
    IF ~PathExists(pip_exe)
    THEN /\ printed' = <<>>
         /\ spawned' = <<Proc(pip_exe, <<"uninstall", "-y", p>>, "ENOENT")>>
         /\ raised' = "FileNotFoundError"
         /\ UNCHANGED fsVars
    ELSE /\ installed' = IF ok THEN pip_uninstall(installed, p) ELSE installed
         /\ requirementsTxt' = update_requirements(requirementsTxt, installed')
         /\ printed' = <<MsgUninstalled(p)>>
         /\ spawned' = <<Proc(pip_exe, <<"uninstall", "-y", p>>,
                              IF ok THEN "ok" ELSE "fail"),
                         Proc(pip_exe, <<"freeze">>, "ok")>>
         /\ raised' = NoException
         /\ UNCHANGED <<venvExists, venvLayouts, noetryYml>>

\* the activation script run_in_venv picks: bin/activate if it is on disk
activate_script ==
    IF PathExists(os_path_join(venv_dir, "bin", "activate"))
    THEN os_path_join(venv_dir, "bin", "activate")
    ELSE os_path_join(venv_dir, "Scripts", "activate")

\* variant of RunDispatch: every host that is not Windows takes the POSIX branch
RunDispatchAnyShell ==
    IF host.osName = "nt" THEN "nt" ELSE "posix"

\* the branch of run_in_venv taken on this host
RunDispatch ==
    IF host.osName = "posix" THEN "posix"
    ELSE IF host.osName = "nt" THEN "nt"
    ELSE "unsupported"

\* run_in_venv(project_dir, *words)
run_in_venv(words) ==
    /\ raised' = NoException
    /\ UNCHANGED fsVars
    /\ IF ~PathExists(venv_dir)
       THEN /\ printed' = <<MsgNoVenv>>
            /\ spawned' = <<>>
       ELSE LET status == IF PathExists(activate_script) THEN "ok" ELSE "fail" IN
            IF RunDispatch = "posix"
            THEN /\ printed' = <<>>
                 /\ spawned' = <<Proc(<<"/bin/sh">>,
                                      <<"-c", ".">> \o activate_script \o <<"&&">> \o words,
                                      status)>>
            ELSE IF RunDispatch = "nt"
            THEN /\ printed' = <<>>
                 /\ spawned' = <<Proc(<<"cmd.exe">>,
                                      <<"/c">> \o activate_script \o <<"&&">> \o words,
                                      status)>>
            ELSE /\ printed' = <<MsgUnsupportedOS>>
                 /\ spawned' = <<>>

\* variant of InitProjectResult: create_virtualenv is not called
InitProjectNoCreate ==
    IF noetryYml.exists
    THEN [yml |-> noetryYml,
          venvExists |-> venvExists,
          venvLayouts |-> venvLayouts,
          printed |-> <<MsgYmlExists>>]
    ELSE [yml |-> OpenWrite(noetryYml, YamlDump(DefaultPythonVersion)),
          venvExists |-> venvExists,
          venvLayouts |-> venvLayouts,
          printed |-> <<MsgInitialized(DefaultPythonVersion)>>]

\* variant of InitProjectResult: the os.path.exists check is missing
InitProjectOverwriting ==
    [yml |-> OpenWrite(noetryYml, YamlDump(DefaultPythonVersion)),
     venvExists |-> TRUE,
     venvLayouts |-> venvLayouts \cup {NativeLayout},
     printed |-> <<MsgInitialized(DefaultPythonVersion), MsgCreated>>]

\* init_project(project_dir), as what it leaves behind
InitProjectResult ==
    IF noetryYml.exists
    THEN [yml |-> noetryYml,
          venvExists |-> venvExists,
          venvLayouts |-> venvLayouts,
          printed |-> <<MsgYmlExists>>]
    ELSE [yml |-> OpenWrite(noetryYml, YamlDump(DefaultPythonVersion)),
          venvExists |-> TRUE,
          venvLayouts |-> venvLayouts \cup {NativeLayout},
          printed |-> <<MsgInitialized(DefaultPythonVersion), MsgCreated>>]

init_project ==
    /\ noetryYml' = InitProjectResult.yml
    /\ venvExists' = InitProjectResult.venvExists
    /\ venvLayouts' = InitProjectResult.venvLayouts
    /\ printed' = InitProjectResult.printed
    /\ spawned' = <<>>
    /\ raised' = NoException
    /\ UNCHANGED <<installed, requirementsTxt>>

\* list_packages(project_dir)
list_packages ==
    LET pip_exe == get_pip_exe(venv_dir) IN
    /\ UNCHANGED fsVars
    /\ IF ~PathExists(venv_dir)
       THEN /\ printed' = <<MsgNoVenv>>
            /\ spawned' = <<>>
            /\ raised' = NoException
       ELSE IF ~PathExists(pip_exe)
       THEN /\ printed' = <<>>
            /\ spawned' = <<Proc(pip_exe, <<"list">>, "ENOENT")>>
            /\ raised' = "FileNotFoundError"
       ELSE /\ printed' = <<>>
            /\ spawned' = <<Proc(pip_exe, <<"list">>, "ok")>>
            /\ raised' = NoException

\* variant of convert_from_poetry: the os.path.exists check is missing
convert_from_poetry_unchecked ==
    /\ requirementsTxt' = OpenWrite(requirementsTxt, ConvertedText(pyproject))
    /\ noetryYml' = InitProjectResult.yml
    /\ venvExists' = InitProjectResult.venvExists
    /\ venvLayouts' = InitProjectResult.venvLayouts
    /\ printed' = InitProjectResult.printed \o <<MsgConverted>>
    /\ spawned' = <<>>
    /\ raised' = NoException
    /\ UNCHANGED installed

\* variant of convert_from_poetry: the packages of the index it lists are installed
convert_from_poetry_installing ==
    IF ~pyproject.exists
    THEN /\ printed' = <<MsgNoPyproject>>
         /\ spawned' = <<>>
         /\ raised' = NoException
         /\ UNCHANGED fsVars
    ELSE /\ requirementsTxt' = OpenWrite(requirementsTxt, ConvertedText(pyproject))
         /\ noetryYml' = InitProjectResult.yml
         /\ venvExists' = InitProjectResult.venvExists
         /\ venvLayouts' = InitProjectResult.venvLayouts
         /\ printed' = InitProjectResult.printed \o <<MsgConverted>>
         /\ spawned' = <<>>
         /\ raised' = NoException
         /\ installed' =
               [q \in Packages |->
                   IF installed[q] = NotInstalled
                      /\ InitProjectResult.venvExists
                      /\ q \in DictKeys(pyproject.dependencies)
                   THEN VersionStr[1] ELSE installed[q]]

\* convert_from_poetry(project_dir)
convert_from_poetry ==
    IF ~pyproject.exists
    THEN /\ printed' = <<MsgNoPyproject>>
         /\ spawned' = <<>>
         /\ raised' = NoException
         /\ UNCHANGED fsVars
    ELSE /\ requirementsTxt' = OpenWrite(requirementsTxt, ConvertedText(pyproject))
         /\ noetryYml' = InitProjectResult.yml
         /\ venvExists' = InitProjectResult.venvExists
         /\ venvLayouts' = InitProjectResult.venvLayouts
         /\ printed' = InitProjectResult.printed \o <<MsgConverted>>
         /\ spawned' = <<>>
         /\ raised' = NoException
         /\ UNCHANGED installed

----------------------------------------------------------------------------
(* main(): one action per command *)

PackageArgs == Packages \cup {NoArg}

RunWords == <<"python", "script.py">>

CmdCreate ==
    /\ cmd' = "create" /\ arg' = NoArg
    /\ create_virtualenv
    /\ UNCHANGED <<host, pyproject, everInstalled, procs>>

CmdDelete ==
    /\ cmd' = "delete" /\ arg' = NoArg
    /\ delete_virtualenv
    /\ UNCHANGED <<host, pyproject, everInstalled, procs>>

CmdAdd ==
    \E a \in PackageArgs, ok \in BOOLEAN, v \in Versions, w \in Versions :
        /\ cmd' = "add" /\ arg' = a
        /\ IF a # NoArg
           THEN install_package(a, ok, v, w)
           ELSE /\ printed' = <<MsgNeedPackageToAdd>>
                /\ spawned' = <<>>
                /\ raised' = NoException
                /\ UNCHANGED fsVars
        /\ everInstalled' =
              IF a # NoArg /\ ok /\ raised' = NoException
              THEN everInstalled \cup {a} ELSE everInstalled
        /\ UNCHANGED <<host, pyproject, procs>>

CmdRemove ==
    \E a \in PackageArgs, ok \in BOOLEAN :
        /\ cmd' = "remove" /\ arg' = a
        /\ IF a # NoArg
           THEN uninstall_package(a, ok)
           ELSE /\ printed' = <<MsgNeedPackageToRemove>>
                /\ spawned' = <<>>
                /\ raised' = NoException
                /\ UNCHANGED fsVars
        /\ UNCHANGED <<host, pyproject, everInstalled, procs>>

\* set_python_version is defined nowhere: the call raises NameError
CmdSetPython ==
    \E a \in {NoArg, "3.11"} :
        /\ cmd' = "set-python" /\ arg' = a
        /\ printed' = IF a # NoArg THEN <<>> ELSE <<MsgNeedVersion>>
        /\ raised' = IF a # NoArg THEN "NameError" ELSE NoException
        /\ spawned' = <<>>
        /\ UNCHANGED fsVars
        /\ UNCHANGED <<host, pyproject, everInstalled, procs>>

CmdInit ==
    /\ cmd' = "init" /\ arg' = NoArg
    /\ init_project
    /\ UNCHANGED <<host, pyproject, everInstalled, procs>>

CmdConvert ==
    /\ cmd' = "convert" /\ arg' = NoArg
    /\ convert_from_poetry
    /\ UNCHANGED <<host, pyproject, everInstalled, procs>>

CmdRun ==
    \E a \in {NoArg, RunWords[1]} :
        /\ cmd' = "run" /\ arg' = a
        /\ IF a # NoArg
           THEN run_in_venv(RunWords)
           ELSE /\ printed' = <<MsgNeedCommand>>
                /\ spawned' = <<>>
                /\ raised' = NoException
                /\ UNCHANGED fsVars
        /\ UNCHANGED <<host, pyproject, everInstalled, procs>>

CmdList ==
    /\ cmd' = "list" /\ arg' = NoArg
    /\ list_packages
    /\ UNCHANGED <<host, pyproject, everInstalled, procs>>

\* no command, or one main() does not know: show_help
CmdHelp ==
    \E c \in {NoArg, "frobnicate"} :
        /\ cmd' = c /\ arg' = NoArg
        /\ printed' = IF c = NoArg THEN <<MsgHelp>> ELSE <<MsgUnknown(c), MsgHelp>>
        /\ spawned' = <<>>
        /\ raised' = NoException
        /\ UNCHANGED fsVars
        /\ UNCHANGED <<host, pyproject, everInstalled, procs>>

----------------------------------------------------------------------------
(* Runs followed step by step: each subprocess.run and each file write of  *)
(* a run is a step of its own, so that the steps of two runs interleave.   *)

\* two invocations of the program in the same project directory
ProcIds == {"p1", "p2"}

\* a run that has not started; stdout is what it captured from pip freeze
IdleProc ==
    [pc |-> "idle", op |-> NoArg, pkg |-> NoArg, at |-> 0, stdout |-> <<>>,
     printed |-> <<>>, overlapped |-> FALSE]

\* some other run is between its first and its last step
OthersRunning(i) ==
    \E j \in ProcIds \ {i} : procs[j].pc \notin {"idle", "done"}

\* the variables only a whole-run action sets
runVars == <<cmd, arg, printed, spawned, raised, everInstalled>>

\* install_package / uninstall_package, first step: pip install or pip
\* uninstall -y (the environment of these runs has pip)
StepPip(i) ==
    \E op \in {"add", "remove"}, p \in Packages, ok \in BOOLEAN,
       v \in Versions, w \in Versions :
        /\ procs[i].pc = "idle"
        /\ PathExists(get_pip_exe(venv_dir))
        /\ installed' =
              IF ~ok THEN installed
              ELSE IF op = "add" THEN pip_install(installed, p, v, w)
              ELSE pip_uninstall(installed, p)
        /\ procs' = [procs EXCEPT ![i] =
              [@ EXCEPT !.pc = "freeze", !.op = op, !.pkg = p,
                        !.overlapped = OthersRunning(i)]]
        /\ UNCHANGED <<host, venvExists, venvLayouts, requirementsTxt, noetryYml,
                       pyproject>>
        /\ UNCHANGED runVars

\* variant of StepFreeze: result.stderr is taken instead of result.stdout
StepFreezeStderr(i) ==
    /\ procs[i].pc = "freeze"
    /\ procs' = [procs EXCEPT ![i] = [@ EXCEPT !.pc = "write", !.stdout = <<>>]]
    /\ UNCHANGED <<host, pyproject>>
    /\ UNCHANGED fsVars
    /\ UNCHANGED runVars

\* update_requirements, first step: result = subprocess.run([pip_exe, 'freeze'])
StepFreeze(i) ==
    /\ procs[i].pc = "freeze"
    /\ procs' = [procs EXCEPT ![i] =
          [@ EXCEPT !.pc = "write", !.stdout = pip_freeze(installed)]]
    /\ UNCHANGED <<host, pyproject>>
    /\ UNCHANGED fsVars
    /\ UNCHANGED runVars

\* update_requirements, second step: the captured output is written to
\* requirements.txt; then the run prints its message and ends
StepWrite(i) ==
    /\ procs[i].pc = "write"
    /\ requirementsTxt' = OpenWrite(requirementsTxt, procs[i].stdout)
    /\ procs' = [procs EXCEPT ![i] =
          [@ EXCEPT !.pc = "done",
                    !.printed = <<IF procs[i].op = "add"
                                  THEN MsgInstalled(procs[i].pkg)
                                  ELSE MsgUninstalled(procs[i].pkg)>>]]
    /\ UNCHANGED <<host, venvExists, venvLayouts, installed, noetryYml, pyproject>>
    /\ UNCHANGED runVars

\* variant of InitSteps: the environment is created before the config is written
InitStepsCreateFirst == <<"create_venv", "write_config">>

\* init_project past its os.path.exists check: what it does, in order
InitSteps == <<"write_config", "create_venv">>

\* init_project, first step: the os.path.exists(config_path) check
StepInitCheck(i) ==
    /\ procs[i].pc = "idle"
    /\ procs' = [procs EXCEPT ![i] =
          IF noetryYml.exists
          THEN [@ EXCEPT !.pc = "done", !.op = "init", !.printed = <<MsgYmlExists>>]
          ELSE [@ EXCEPT !.pc = "init", !.op = "init", !.at = 1]]
    /\ UNCHANGED <<host, pyproject>>
    /\ UNCHANGED fsVars
    /\ UNCHANGED runVars

\* init_project, the next of its steps: the config is written and reported
\* (lines 85-89), or create_virtualenv is called (line 91)
StepInit(i) ==
    /\ procs[i].pc = "init"
    /\ procs[i].at \in DOMAIN InitSteps
    /\ IF InitSteps[procs[i].at] = "write_config"
       THEN /\ noetryYml' = OpenWrite(noetryYml, YamlDump(DefaultPythonVersion))
            /\ UNCHANGED <<venvExists, venvLayouts>>
       ELSE /\ venvExists' = TRUE
            /\ venvLayouts' = venvLayouts \cup {NativeLayout}
            /\ UNCHANGED noetryYml
    /\ procs' = [procs EXCEPT ![i] =
          [@ EXCEPT !.at = @ + 1,
                    !.pc = IF procs[i].at = Len(InitSteps) THEN "done" ELSE "init",
                    !.printed = Append(@,
                        IF InitSteps[procs[i].at] = "write_config"
                        THEN MsgInitialized(DefaultPythonVersion)
                        ELSE MsgCreated)]]
    /\ UNCHANGED <<host, installed, requirementsTxt, pyproject>>
    /\ UNCHANGED runVars

----------------------------------------------------------------------------
(* The specifications *)

\* before the first run: nothing was run, and the project directory is as
\* the user left it
NothingRun ==
    /\ cmd = NoArg /\ arg = NoArg
    /\ printed = <<>> /\ spawned = <<>> /\ raised = NoException
    /\ everInstalled = {}
    /\ procs = [i \in ProcIds |-> IdleProc]

Init ==
    /\ host \in Hosts
    /\ venvExists \in BOOLEAN
    /\ venvLayouts \in (IF venvExists THEN SUBSET Layouts ELSE {{}})
    /\ installed = NoPackages
    /\ requirementsTxt \in {NoFile, HandWrittenRequirements}
    /\ noetryYml \in {NoFile, HandWrittenYml}
    /\ pyproject \in {NoPyproject} \cup ForeignSamples
    /\ NothingRun

Next ==
    \/ CmdCreate
    \/ CmdDelete
    \/ CmdAdd
    \/ CmdRemove
    \/ CmdSetPython
    \/ CmdInit
    \/ CmdConvert
    \/ CmdRun
    \/ CmdList
    \/ CmdHelp

Spec == Init /\ [][Next]_vars

\* the importer alone, over every pyproject.toml within the bounds
InitImport ==
    /\ host \in Hosts
    /\ venvExists = FALSE
    /\ venvLayouts = {}
    /\ installed = NoPackages
    /\ requirementsTxt \in {NoFile, HandWrittenRequirements}
    /\ noetryYml \in {NoFile, HandWrittenYml}
    /\ pyproject \in ForeignDocs
    /\ NothingRun

NextImport == CmdConvert \/ CmdInit

SpecImport == InitImport /\ [][NextImport]_vars

\* two runs of add / remove at once, in a project whose environment exists
InitConcurrent ==
    /\ host \in Hosts
    /\ venvExists = TRUE
    /\ venvLayouts = {NativeLayout}
    /\ installed = NoPackages
    /\ requirementsTxt \in {NoFile, HandWrittenRequirements}
    /\ noetryYml \in {NoFile, HandWrittenYml}
    /\ pyproject = NoPyproject
    /\ NothingRun

NextConcurrent ==
    \E i \in ProcIds : StepPip(i) \/ StepFreeze(i) \/ StepWrite(i)

SpecConcurrent == InitConcurrent /\ [][NextConcurrent]_vars

\* one run of init, step by step, from every project directory of Init
NextInitSteps == StepInitCheck("p1") \/ StepInit("p1")

SpecInitSteps == Init /\ [][NextInitSteps]_vars

----------------------------------------------------------------------------
(* What the claims speak of *)

Range(seq) == {seq[i] : i \in DOMAIN seq}

\* the last run called install_package / uninstall_package and pip was started
PackageRun ==
    /\ cmd \in {"add", "remove"}
    /\ arg # NoArg
    /\ raised = NoException

\* ... and pip's install / uninstall invocation succeeded
PackageRunOk == PackageRun /\ spawned[1].status = "ok"

\* the file lists exactly the packages of inst, one name==version line each
ListsExactly(file, inst) ==
    /\ file.exists
    /\ Range(Lines(file.text)) = {<<p, "==", inst[p]>> : p \in InstalledSet(inst)}
    /\ Len(Lines(file.text)) = Cardinality(InstalledSet(inst))

----------------------------------------------------------------------------
(* The claims *)

\* C1: after an Install or Uninstall whose installer invocation succeeded,
\* requirements.txt lists exactly the packages installed in the environment
\* at that moment, whatever it held before.
C1_ManifestIsInstalledSet ==
    PackageRunOk => ListsExactly(requirementsTxt, installed)

\* C1 witness: requests was installed (pulling in urllib3) and then removed;
\* the manifest lists urllib3 alone, which no run of add ever named.
C1_Witness ==
    /\ PackageRunOk
    /\ cmd = "remove" /\ arg = "requests"
    /\ everInstalled = {"requests"}
    /\ InstalledSet(installed) = {"urllib3"}
    /\ ListsExactly(requirementsTxt, installed)

\* C2: a package that was installed by Install and is then removed by a
\* successful Uninstall has no entry in requirements.txt after the resync.
C2_RemovedNotInManifest ==
    (PackageRunOk /\ cmd = "remove" /\ arg \in everInstalled)
        => (requirementsTxt.exists /\ EntriesNamed(requirementsTxt, arg) = {})

\* C2 witness: a successful remove of a package add had installed, with
\* another package still installed and listed.
C2_Witness ==
    /\ PackageRunOk /\ cmd = "remove" /\ arg \in everInstalled
    /\ installed[arg] = NotInstalled
    /\ InstalledSet(installed) # {}
    /\ EntriesNamed(requirementsTxt, arg) = {}

\* C3: two resyncs in succession with the same installed set in between
\* leave the same requirements.txt: the second resync changes nothing.
C3_ResyncIdempotent ==
    [][(PackageRun /\ PackageRun' /\ installed' = installed)
        => requirementsTxt' = requirementsTxt]_vars

\* C3 witness: an add that changed nothing (pip failed) resynced a manifest
\* that an earlier resync had written for the same non-empty installed set.
C3_Witness ==
    /\ PackageRun /\ cmd = "add" /\ spawned[1].status = "fail"
    /\ everInstalled # {}
    /\ InstalledSet(installed) = Packages
    /\ ListsExactly(requirementsTxt, installed)

\* C4: when .noetry.yml exists, init_project (called by init or by convert)
\* reports "already exists" first and leaves the config and the environment
\* as they were.
C4_InitKeepsConfig ==
    [][(noetryYml.exists /\ (cmd' = "init" \/ (cmd' = "convert" /\ pyproject.exists)))
        => /\ printed'[1] = MsgYmlExists
           /\ noetryYml' = noetryYml
           /\ venvExists' = venvExists
           /\ venvLayouts' = venvLayouts
           /\ installed' = installed
           /\ spawned' = <<>>]_vars

\* C4 witness: init reported "already exists" on the config an earlier init
\* had written, and there is no environment.
C4_Witness ==
    /\ cmd = "init"
    /\ printed = <<MsgYmlExists>>
    /\ noetryYml = OpenWrite(NoFile, YamlDump(DefaultPythonVersion))
    /\ ~venvExists

\* C5 (as claimed): list, run, Install and Uninstall on a project without an
\* environment each print the no-environment error, end normally and leave
\* requirements.txt as it was.
C5_NoVenvReported ==
    [][(~venvExists /\ cmd' \in {"list", "run", "add", "remove"}
            /\ (cmd' = "list" \/ arg' # NoArg))
        => /\ printed' = <<MsgNoVenv>>
           /\ raised' = NoException
           /\ requirementsTxt' = requirementsTxt]_vars

\* the last run was a convert that found pyproject.toml and wrote requirements.txt
Converted == cmd = "convert" /\ pyproject.exists

\* requirements.txt holds exactly one entry named n, and it is n followed by c
WrittenOnceAs(n, c) ==
    /\ Cardinality(EntriesNamed(requirementsTxt, n)) = 1
    /\ \A i \in EntriesNamed(requirementsTxt, n) :
           Lines(requirementsTxt.text)[i] = <<n, c>>

RuntimeKeys == DictKeys(pyproject.dependencies)

DevKeys == DictKeys(pyproject.devDependencies)

\* C6 (as claimed): after convert, a name of both groups is written once with
\* the development group's constraint, and a name of only one group is
\* written with that group's constraint.
C6_MergePrecedenceAsClaimed ==
    Converted =>
        \A n \in ImportNames :
            /\ (n \in RuntimeKeys /\ n \in DevKeys)
                   => WrittenOnceAs(n, DictGet(pyproject.devDependencies, n))
            /\ (n \in DevKeys /\ n \notin RuntimeKeys)
                   => WrittenOnceAs(n, DictGet(pyproject.devDependencies, n))
            /\ (n \in RuntimeKeys /\ n \notin DevKeys)
                   => WrittenOnceAs(n, DictGet(pyproject.dependencies, n))

\* C6 (amended): as claimed, except that python, when only the runtime group
\* has it, is not written at all.
C6_MergePrecedence ==
    Converted =>
        \A n \in ImportNames :
            /\ (n \in RuntimeKeys /\ n \in DevKeys)
                   => WrittenOnceAs(n, DictGet(pyproject.devDependencies, n))
            /\ (n \in DevKeys /\ n \notin RuntimeKeys)
                   => WrittenOnceAs(n, DictGet(pyproject.devDependencies, n))
            /\ (n \in RuntimeKeys /\ n \notin DevKeys /\ n # "python")
                   => WrittenOnceAs(n, DictGet(pyproject.dependencies, n))
            /\ (n = "python" /\ n \in RuntimeKeys /\ n \notin DevKeys)
                   => EntriesNamed(requirementsTxt, n) = {}

\* C6 witness: requests is in both groups with different constraints and is
\* written with the development one; urllib3 is in the development group only.
C6_Witness ==
    /\ Converted
    /\ pyproject.dependencies = <<<<"requests", "^2.0">>>>
    /\ pyproject.devDependencies = <<<<"requests", "^3.9">>, <<"urllib3", "^2.0">>>>
    /\ requirementsTxt.text = <<"requests", "^3.9", "\n", "urllib3", "^2.0">>

\* every runtime entry other than python is written as name followed by a constraint
OtherRuntimeEntriesWritten ==
    \A n \in RuntimeKeys \ {"python"} :
        \E c \in Constraints : WrittenOnceAs(n, c)

\* C7 (as claimed): after convert of a pyproject.toml whose runtime group has
\* python, requirements.txt has no entry named python, and the other runtime
\* entries are written as name+constraint.
C7_PythonDroppedAsClaimed ==
    (Converted /\ "python" \in RuntimeKeys)
        => /\ EntriesNamed(requirementsTxt, "python") = {}
           /\ OtherRuntimeEntriesWritten

\* C7 (amended): the same, for a pyproject.toml whose development group has
\* no entry named python.
C7_PythonDropped ==
    (Converted /\ "python" \in RuntimeKeys /\ "python" \notin DevKeys)
        => /\ EntriesNamed(requirementsTxt, "python") = {}
           /\ OtherRuntimeEntriesWritten

\* C7 witness: the runtime group {python: ^3.9, requests: ^2.0} was converted
\* to the single line requests^2.0.
C7_Witness ==
    /\ Converted
    /\ pyproject.dependencies = <<<<"python", "^3.9">>, <<"requests", "^2.0">>>>
    /\ pyproject.devDependencies = <<>>
    /\ requirementsTxt.text = <<"requests", "^2.0">>

\* run was called with a command on a host that is neither POSIX nor Windows
RunOnOtherHost ==
    cmd = "run" /\ arg # NoArg /\ host.osName \notin {"posix", "nt"}

\* C8 (as claimed): run on such a host starts no process and prints the
\* unsupported-OS error, in every project state.
C8_UnsupportedAsClaimed ==
    RunOnOtherHost => (spawned = <<>> /\ printed = <<MsgUnsupportedOS>>)

\* C8 (amended): run on such a host starts no process in every project
\* state; it prints the unsupported-OS error when .venv exists, and the
\* no-environment error when it does not.
C8_Unsupported ==
    RunOnOtherHost
        => /\ spawned = <<>>
           /\ raised = NoException
           /\ printed = IF venvExists THEN <<MsgUnsupportedOS>> ELSE <<MsgNoVenv>>

\* C8 witness: run on such a host, with an environment, printed the
\* unsupported-OS error.
C8_Witness ==
    /\ RunOnOtherHost
    /\ venvExists /\ "bin" \in venvLayouts
    /\ printed = <<MsgUnsupportedOS>>
    /\ spawned = <<>>

\* C9 (as claimed): requirements.txt changes only in runs that resync it
\* (add, remove).
C9_OnlyResyncWritesAsClaimed ==
    [][requirementsTxt' # requirementsTxt
        => (PackageRun' /\ requirementsTxt'.text = pip_freeze(installed'))]_vars

\* C9 (amended): requirements.txt changes only in runs that resync it (add,
\* remove) and in convert, which writes the transcribed pyproject.toml
\* entries itself.
C9_OnlyResyncOrConvertWrites ==
    [][requirementsTxt' # requirementsTxt
        => \/ (PackageRun' /\ requirementsTxt'.text = pip_freeze(installed'))
           \/ (Converted' /\ requirementsTxt'.text = ConvertedText(pyproject))]_vars

\* C9 witness: convert wrote entries of packages that are not installed.
C9_Witness ==
    /\ Converted
    /\ requirementsTxt.text = <<"requests", "^2.0">>
    /\ venvExists /\ installed = NoPackages

\* the pip invocations of the last run
PipCalls == {i \in DOMAIN spawned : spawned[i].exe[1] = ".venv"}

\* C10: the pip path a run uses is .venv/Scripts/pip on Windows and
\* .venv/bin/pip otherwise, whichever of .venv, bin and Scripts exist.
C10_PipPathByPlatform ==
    \A i \in PipCalls :
        spawned[i].exe =
            <<".venv", IF host.sysPlatform = "win32" THEN "Scripts" ELSE "bin", "pip">>

\* C10 witness: on a POSIX host whose .venv holds Scripts and no bin, add
\* tried .venv/bin/pip, which is not there.
C10_Witness ==
    /\ host.sysPlatform = "linux"
    /\ venvExists /\ venvLayouts = {"Scripts"}
    /\ cmd = "add"
    /\ PipCalls = {1}
    /\ spawned[1].exe = <<".venv", "bin", "pip">>
    /\ spawned[1].status = "ENOENT"

\* C11: once .noetry.yml exists, every run leaves it there with the same
\* content; only init and convert write it, and only when it did not exist.
C11_ConfigNeverDeleted ==
    [][/\ noetryYml.exists => noetryYml' = noetryYml
       /\ noetryYml' # noetryYml
            => (~noetryYml.exists /\ noetryYml'.exists
                /\ cmd' \in {"init", "convert"})]_vars

\* C11 witness: delete removed the environment and the config an earlier
\* init had written is still there.
C11_Witness ==
    /\ cmd = "delete" /\ raised = NoException
    /\ ~venvExists
    /\ noetryYml = OpenWrite(NoFile, YamlDump(DefaultPythonVersion))

\* C12 (as claimed): when pip's install or uninstall invocation fails, the
\* run leaves requirements.txt as it was.
C12_NoResyncOnFailure ==
    [][(PackageRun' /\ spawned'[1].status = "fail")
        => requirementsTxt' = requirementsTxt]_vars

\* C15 (as claimed): after a convert that found pyproject.toml, .noetry.yml
\* and .venv both exist, whatever existed before.
C15_ConvertEstablishesAsClaimed ==
    Converted => (noetryYml.exists /\ venvExists)

\* C15 (amended): after a convert that found pyproject.toml, .noetry.yml
\* exists; .venv exists too when there was no .noetry.yml before, and when
\* there was one, config and environment are as they were before.
C15_ConvertEstablishes ==
    [][(cmd' = "convert" /\ pyproject.exists)
        => /\ noetryYml'.exists
           /\ ~noetryYml.exists => (venvExists' /\ NativeLayout \in venvLayouts')
           /\ noetryYml.exists
                => (noetryYml' = noetryYml /\ venvExists' = venvExists
                    /\ venvLayouts' = venvLayouts)]_vars

\* C15 witness: convert on a project without config and without environment
\* left both.
C15_Witness ==
    /\ Converted
    /\ printed = <<MsgInitialized(DefaultPythonVersion), MsgCreated, MsgConverted>>
    /\ noetryYml = OpenWrite(NoFile, YamlDump(DefaultPythonVersion))
    /\ venvExists /\ venvLayouts = {NativeLayout}
    /\ everInstalled = {}

\* C16: convert without pyproject.toml prints the not-found error and
\* changes neither requirements.txt nor .noetry.yml nor .venv.
C16_ConvertWithoutPyproject ==
    [][(cmd' = "convert" /\ ~pyproject.exists)
        => /\ printed' = <<MsgNoPyproject>>
           /\ raised' = NoException
           /\ spawned' = <<>>
           /\ UNCHANGED fsVars]_vars

\* C16 witness: convert reported the missing pyproject.toml in a project
\* that has none of the three artifacts.
C16_Witness ==
    /\ cmd = "convert" /\ ~pyproject.exists
    /\ printed = <<MsgNoPyproject>>
    /\ ~requirementsTxt.exists /\ ~noetryYml.exists /\ ~venvExists

\* C17 (as claimed): delete never fails; without an environment it changes
\* nothing, with one it leaves none, and a second delete changes nothing.
C17_DeleteIdempotent ==
    [][cmd' = "delete"
        => /\ raised' = NoException
           /\ ~venvExists'
           /\ ~venvExists => UNCHANGED fsVars
           /\ cmd = "delete" => UNCHANGED fsVars]_vars

\* C18: convert installs nothing and leaves pyproject.toml alone, while
\* requirements.txt becomes the transcribed entries; an environment it
\* creates holds no package.
C18_ConvertInstallsNothing ==
    [][cmd' = "convert"
        => /\ installed' = installed
           /\ pyproject' = pyproject
           /\ pyproject.exists
                => requirementsTxt' = OpenWrite(NoFile, ConvertedText(pyproject))
           /\ (~venvExists /\ venvExists') => installed' = NoPackages]_vars

\* C18 witness: convert created the environment and wrote requests^2.0,
\* and the environment holds no package.
C18_Witness ==
    /\ Converted
    /\ MsgCreated \in Range(printed)
    /\ pyproject.dependencies = <<<<"python", "^3.9">>, <<"requests", "^2.0">>>>
    /\ requirementsTxt.text = <<"requests", "^2.0">>
    /\ installed = NoPackages

\* C19: create and delete leave requirements.txt and .noetry.yml as they
\* were; after delete the manifest still lists what the last resync wrote.
C19_CreateDeleteFrame ==
    [][cmd' \in {"create", "delete"}
        => (requirementsTxt' = requirementsTxt /\ noetryYml' = noetryYml)]_vars

\* C19 witness: delete removed the environment; requirements.txt still
\* lists two packages as installed.
C19_Witness ==
    /\ cmd = "delete" /\ raised = NoException
    /\ ~venvExists /\ installed = NoPackages
    /\ Len(Lines(requirementsTxt.text)) = 2
    /\ \A i \in DOMAIN Lines(requirementsTxt.text) :
           Lines(requirementsTxt.text)[i][2] = "=="

\* every run has ended
AllDone == \A i \in ProcIds : procs[i].pc = "done"

\* no run started while another was between its first and its last step
Sequential == \A i \in ProcIds : ~procs[i].overlapped

\* C13: when two add / remove runs in the same project have both ended and
\* did not overlap, requirements.txt lists exactly the installed packages;
\* runs that overlap can end otherwise (the witness).
C13_SequentialRunsKeepManifest ==
    (AllDone /\ Sequential) => ListsExactly(requirementsTxt, installed)

\* C13 witness: both runs have ended, and requirements.txt lists a package
\* that is not installed: one run wrote what it had captured from pip freeze
\* before the other run removed the package.
C13_Witness ==
    /\ AllDone
    /\ ~ListsExactly(requirementsTxt, installed)
    /\ \E p \in Packages :
           /\ installed[p] = NotInstalled
           /\ EntriesNamed(requirementsTxt, p) # {}

\* C14: in a run of init on a project without .noetry.yml, the default
\* config (python_version 3.9) is on disk when create_virtualenv is called,
\* and when the run ends both the config and the environment exist.
C14_ConfigThenCreate ==
    [][\A i \in ProcIds :
        procs[i].pc = "init"
            => /\ InitSteps[procs[i].at] = "create_venv"
                    => noetryYml = OpenWrite(NoFile, YamlDump(DefaultPythonVersion))
               /\ procs'[i].pc = "done"
                    => /\ noetryYml' = OpenWrite(NoFile, YamlDump(DefaultPythonVersion))
                       /\ venvExists'
                       /\ NativeLayout \in venvLayouts']_vars

\* C14 witness: a run of init on a project with neither config nor
\* environment ended with both, having reported the config first.
C14_Witness ==
    /\ procs["p1"].pc = "done" /\ procs["p1"].op = "init"
    /\ procs["p1"].printed = <<MsgInitialized(DefaultPythonVersion), MsgCreated>>
    /\ noetryYml = OpenWrite(NoFile, YamlDump(DefaultPythonVersion))
    /\ venvExists /\ venvLayouts = {NativeLayout}

====
